---- MODULE Spec2Model ----
(***************************************************************************)
(* The Types modal (src/ui/screens/Docs/Doc/TypeDoc/Types/index.tsx) and   *)
(* the DocUsage tab selector (src/ui/components/DocUsage).                 *)
(*                                                                         *)
(* JavaScript values are modelled as follows.                              *)
(*   - an optional value (T | undefined) is Absent or Some(v);             *)
(*   - a string is a sequence of one-character strings, so that            *)
(*     toLowerCase and includes are computed and not assumed;              *)
(*   - an object is a record; an array is a sequence;                      *)
(*   - a Record<number, T> is a function from the keys it holds.           *)
(***************************************************************************)
EXTENDS Integers, Sequences, FiniteSets, TLC

VARIABLES
  doc,         \* props.doc: the declaration tree handed to the modal
  typeId,      \* props.typeId: the id of the requested type
  query,       \* useQuery(): the search query
  modal,       \* the values useTypesModal computed in its last render
  store,       \* window.localStorage[LOCALSTORAGE_KEY]
  usageTabs,   \* props.usageTabs of the mounted DocUsage
  source,      \* useState(DEFAULT_SOURCE) of the mounted DocUsage
  phase,       \* DocUsage: "unmounted", "rendered" (effect pending), "active"
  lastClick    \* history: the tab of the last onClick, whether this instance got it

vars == <<doc, typeId, query, modal, store, usageTabs, source, phase, lastClick>>
modalVars == <<doc, typeId, query, modal>>
usageVars == <<store, usageTabs, source, phase, lastClick>>

----------------------------------------------------------------------------
(* Values *)

Absent == <<>>
Some(v) == <<v>>
Get(o) == o[1]

UpperChars == <<"A", "B", "F", "O", "T">>
LowerChars == <<"a", "b", "f", "o", "t">>

\* a toLowerCase that lowers the first character only
toLowerCaseDropsTail(s) ==
  [i \in 1..Len(s) |->
     IF i = 1 /\ \E k \in 1..Len(UpperChars) : UpperChars[k] = s[i]
     THEN LowerChars[CHOOSE k \in 1..Len(UpperChars) : UpperChars[k] = s[i]]
     ELSE s[i]]

\* String.prototype.toLowerCase
toLowerCase(s) ==
  [i \in 1..Len(s) |->
     IF \E k \in 1..Len(UpperChars) : UpperChars[k] = s[i]
     THEN LowerChars[CHOOSE k \in 1..Len(UpperChars) : UpperChars[k] = s[i]]
     ELSE s[i]]

\* String.prototype.includes
includes(s, q) ==
  \E i \in 0..(Len(s) - Len(q)) : SubSeq(s, i + 1, i + Len(q)) = q

ModuleKinds == {"Module", "Function"}
TypeKinds == {"Interface", "Type alias"}
Kinds == ModuleKinds \cup TypeKinds \cup {"Namespace"}

\* A DeclarationReflection (or SignatureReflection) with the fields the code reads.
Reflection(id, name, kind, children, tp, tps, type, summary, description) ==
  [id |-> id, name |-> name, kindString |-> kind, children |-> children,
   typeParameter |-> tp, typeParameters |-> tps, type |-> type,
   summary |-> summary, description |-> description]

----------------------------------------------------------------------------
(* extractTypes *)

RECURSIVE extractChildren(_, _)
\* the forEach of extractTypes over dec.children, with acc the array pushed to
extractChildren(kids, acc) ==
  IF kids = <<>> THEN acc
  ELSE LET child == Head(kids)
           acc1 == IF child.kindString \in ModuleKinds THEN acc
                   ELSE IF child.kindString \in TypeKinds THEN Append(acc, child)
                   ELSE IF child.children # Absent
                        THEN extractChildren(Get(child.children), acc)
                        ELSE acc
       IN extractChildren(Tail(kids), acc1)

RECURSIVE extractChildrenIntoTypes(_, _)
\* an extractTypes that goes on into the children of the types it adds
extractChildrenIntoTypes(kids, acc) ==
  IF kids = <<>> THEN acc
  ELSE LET child == Head(kids)
           acc1 == IF child.kindString \in ModuleKinds THEN acc
                   ELSE IF child.kindString \in TypeKinds
                        THEN IF child.children # Absent
                             THEN extractChildrenIntoTypes(Get(child.children), Append(acc, child))
                             ELSE Append(acc, child)
                   ELSE IF child.children # Absent
                        THEN extractChildrenIntoTypes(Get(child.children), acc)
                        ELSE acc
       IN extractChildrenIntoTypes(Tail(kids), acc1)

extractTypesIntoTypes(dec) ==
  IF dec.children = Absent THEN <<>>
  ELSE extractChildrenIntoTypes(Get(dec.children), <<>>)

\* extractTypes(dec), acc not given
extractTypes(dec) ==
  IF dec.children = Absent THEN <<>> ELSE extractChildren(Get(dec.children), <<>>)

----------------------------------------------------------------------------
(* buildMap *)

RECURSIVE buildMapFrom(_, _)
\* types.forEach((type) => { map[type.id] = type })
buildMapFrom(types, map) ==
  IF types = <<>> THEN map
  ELSE LET t == Head(types)
       IN buildMapFrom(Tail(types),
            [k \in DOMAIN map \cup {t.id} |-> IF k = t.id THEN t ELSE map[k]])

RECURSIVE buildMapKeepFirstFrom(_, _)
\* a buildMap that keeps the first type of an id
buildMapKeepFirstFrom(types, map) ==
  IF types = <<>> THEN map
  ELSE LET t == Head(types)
       IN buildMapKeepFirstFrom(Tail(types),
            [k \in DOMAIN map \cup {t.id} |-> IF k \in DOMAIN map THEN map[k] ELSE t])

buildMapKeepFirst(types) == buildMapKeepFirstFrom(types, <<>>)

buildMap(types) == buildMapFrom(types, <<>>)

\* a lookup that falls back to some type of the index
lookupFirstWhenMissing(map, id) ==
  IF id \in DOMAIN map THEN Some(map[id])
  ELSE IF DOMAIN map # {} THEN Some(map[CHOOSE k \in DOMAIN map : TRUE]) ELSE Absent

\* map[typeId] as DeclarationReflection | undefined
lookup(map, id) == IF id \in DOMAIN map THEN Some(map[id]) ELSE Absent

kindHasUsage(kindString) == kindString \in {"Type alias", "Interface"}

----------------------------------------------------------------------------
(* buildParentTypesMap *)

\* inlineTypeHash(refl, ref) of ~/utils/docs: a tag built from the (name, id)
\* pairs of the anchor and of the type parameter.
inlineTypeHash(refl, ref) == <<refl.name, refl.id, ref.name, ref.id>>

RECURSIVE traverseTypes(_)
RECURSIVE traverseType(_)
\* traverseType(type, cb) of @date-fns/docs/utils: the sub-expressions cb is
\* called with, in order: the expression, then the members of a union.
traverseType(t) ==
  <<t>> \o (IF t.type = "union" THEN traverseTypes(t.types) ELSE <<>>)

traverseTypes(ts) ==
  IF ts = <<>> THEN <<>> ELSE traverseType(Head(ts)) \o traverseTypes(Tail(ts))

\* (refl && type?.typeParameter) || type?.typeParameters
\* An array, even an empty one, is truthy: || falls through on undefined only.
typeParams(refl, type) ==
  IF type = Absent THEN Absent
  ELSE IF refl # Absent /\ Get(type).typeParameter # Absent
       THEN Get(type).typeParameter
       ELSE Get(type).typeParameters

RECURSIVE registerParams(_, _, _)
\* params.map((ref) => { map[ref.id] = inlineTypeHash(refl, ref) })
registerParams(anchor, params, map) ==
  IF params = <<>> THEN map
  ELSE LET ref == Head(params)
       IN registerParams(anchor, Tail(params),
            [k \in DOMAIN map \cup {ref.id} |->
               IF k = ref.id THEN inlineTypeHash(anchor, ref) ELSE map[k]])

RECURSIVE buildParentTypesMapAcc(_, _, _)
RECURSIVE visitRefs(_, _, _)
RECURSIVE visitSignatures(_, _, _)

\* one call of buildParentTypesMap(refl, type, accMap)
buildParentTypesMapAcc(refl, type, accMap) ==
  LET params == typeParams(refl, type)
      map1 == IF refl # Absent /\ params # Absent
              THEN registerParams(Get(refl), Get(params), accMap)
              ELSE accMap
  IN IF type # Absent /\ Get(type).type # Absent
     THEN visitRefs(refl, traverseType(Get(Get(type).type)), map1)
     ELSE map1

\* the callback handed to traverseType, applied to each visited expression
visitRefs(refl, refs, map) ==
  IF refs = <<>> THEN map
  ELSE LET ref == Head(refs)
           map1 == IF ref.type = "reflection" /\ ref.declaration.signatures # Absent
                   THEN visitSignatures(refl, Get(ref.declaration.signatures), map)
                   ELSE map
       IN visitRefs(refl, Tail(refs), map1)

\* signatures.forEach((signature) => buildParentTypesMap(refl, signature, map))
visitSignatures(refl, sigs, map) ==
  IF sigs = <<>> THEN map
  ELSE visitSignatures(refl, Tail(sigs),
         buildParentTypesMapAcc(refl, Some(Head(sigs)), map))

buildParentTypesMap(refl) == buildParentTypesMapAcc(refl, refl, <<>>)

----------------------------------------------------------------------------
(* useTypesModal *)

\* findSummary / findDescription of @date-fns/docs/utils read the comment
findSummary(t) == t.summary
findDescription(t) == t.description

\* generateTypeUsage(name) of ~/utils/docs
generateTypeUsage(name) == [name |-> name]

toNavItems(types) ==
  [i \in 1..Len(types) |->
     [type |-> types[i], summary |-> findSummary(types[i]),
      description |-> findDescription(types[i])]]

\* the predicate of navItems.filter
matchesQuery(item, q) ==
  \/ includes(toLowerCase(item.type.name), toLowerCase(q))
  \/ item.summary # Absent /\ includes(toLowerCase(Get(item.summary)), toLowerCase(q))
  \/ item.description # Absent
       /\ includes(toLowerCase(Get(item.description)), toLowerCase(q))

filterNav(navItems, q) ==
  IF q # <<>> THEN SelectSeq(navItems, LAMBDA item : matchesQuery(item, q))
  ELSE navItems

\* one render of the modal: the values of its locals
useTypesModal(d, id, q) ==
  LET types == extractTypes(d)
      map == buildMap(types)
      type == lookup(map, id)
      navItems == toNavItems(types)
  IN [types |-> types,
      map |-> map,
      type |-> type,
      parentTypesMap |-> buildParentTypesMap(type),
      usage |-> IF type # Absent /\ kindHasUsage(Get(type).kindString)
                THEN Some(generateTypeUsage(Get(type).name)) ELSE Absent,
      navItems |-> navItems,
      filteredNav |-> filterNav(navItems, q),
      content |-> IF type # Absent THEN "type" ELSE "missing"]

----------------------------------------------------------------------------
(* DocUsage *)

DEFAULT_SOURCE == "commonjs"

\* const selectedTab = usageTabs.includes(source) ? source : usageTabs[0]
selectedTab(tabs, src) ==
  IF \E i \in 1..Len(tabs) : tabs[i] = src THEN src ELSE tabs[1]

NoClick == [tab |-> Absent, here |-> FALSE]

\* no DocUsage is mounted
UsageIdle ==
  /\ usageTabs = <<>>
  /\ source = DEFAULT_SOURCE
  /\ phase = "unmounted"
  /\ lastClick = NoClick

\* The component is created and rendered once: useState(DEFAULT_SOURCE). Its
\* effect has not run yet.
Mount(tabs) ==
  /\ phase = "unmounted"
  /\ phase' = "rendered"
  /\ usageTabs' = tabs
  /\ source' = DEFAULT_SOURCE
  /\ lastClick' = [lastClick EXCEPT !.here = FALSE]
  /\ UNCHANGED <<store, modalVars>>

\* an effect that persists the source whatever is stored
MountEffectAlwaysWrites ==
  /\ phase = "rendered"
  /\ phase' = "active"
  /\ store' = Some(source)
  /\ UNCHANGED <<source, usageTabs, lastClick, modalVars>>

\* an effect that reads the store and does not adopt its value
MountEffectKeepsDefault ==
  /\ phase = "rendered"
  /\ phase' = "active"
  /\ IF store # Absent
     THEN UNCHANGED <<source, store>>
     ELSE store' = Some(DEFAULT_SOURCE) /\ UNCHANGED source
  /\ UNCHANGED <<usageTabs, lastClick, modalVars>>

\* useEffect(() => {...}, []): runs once, after the first render. The source it
\* writes is the one its closure holds, that of the first render.
MountEffect ==
  /\ phase = "rendered"
  /\ phase' = "active"
  /\ IF store # Absent
     THEN source' = Get(store) /\ UNCHANGED store
     ELSE store' = Some(DEFAULT_SOURCE) /\ UNCHANGED source
  /\ UNCHANGED <<usageTabs, lastClick, modalVars>>

\* a click that selects the tab and does not persist it
ClickNoPersist(usageTab) ==
  /\ phase \in {"rendered", "active"}
  /\ source' = usageTab
  /\ lastClick' = [tab |-> Some(usageTab), here |-> TRUE]
  /\ UNCHANGED <<store, usageTabs, phase, modalVars>>

\* onClick of the link of usageTab
Click(usageTab) ==
  /\ phase \in {"rendered", "active"}
  /\ source' = usageTab
  /\ store' = Some(usageTab)
  /\ lastClick' = [tab |-> Some(usageTab), here |-> TRUE]
  /\ UNCHANGED <<usageTabs, phase, modalVars>>

\* The component goes away: its key (type.id) changes or the modal closes.
Unmount ==
  /\ phase \in {"rendered", "active"}
  /\ phase' = "unmounted"
  /\ usageTabs' = <<>>
  /\ source' = DEFAULT_SOURCE
  /\ lastClick' = [lastClick EXCEPT !.here = FALSE]
  /\ UNCHANGED <<store, modalVars>>

----------------------------------------------------------------------------
(* Inputs *)

MaxNodes == 3
MaxIndexNodes == 3
MaxItems == 2
MaxSites == 2
MaxChain == 8
MaxTabs == 2

Letters == <<"a", "b", "c", "d", "e", "f", "g", "h">>
NameOf(i) == <<"T", Letters[i]>>

RECURSIVE SortedSeq(_)
SortedSeq(S) ==
  IF S = {} THEN <<>>
  ELSE LET m == CHOOSE x \in S : \A y \in S : x <= y
       IN <<m>> \o SortedSeq(S \ {m})

\* par[i] is the parent of node i; 0 is the root
ParentVectors(n) == {par \in [1..n -> 0..n] : \A i \in 1..n : par[i] < i}

KidsOf(i, n, par) == SortedSeq({j \in 1..n : par[j] = i})

OptSeq(s) == IF s = <<>> THEN Absent ELSE Some(s)

RECURSIVE MkNode(_, _, _, _, _)
MkNode(i, n, par, kinds, ids) ==
  LET kids == KidsOf(i, n, par)
  IN Reflection(ids[i], NameOf(i), kinds[i],
       OptSeq([k \in 1..Len(kids) |-> MkNode(kids[k], n, par, kinds, ids)]),
       Absent, Absent, Absent, Absent, Absent)

Root(children) ==
  Reflection(0, <<"d", "o", "c">>, "Project", OptSeq(children),
             Absent, Absent, Absent, Absent, Absent)

MkDoc(n, par, kinds, ids) ==
  LET kids == KidsOf(0, n, par)
  IN Root([k \in 1..Len(kids) |-> MkNode(kids[k], n, par, kinds, ids)])

\* ids that differ from the unique numbering at one node at most
IdAssignments(n) ==
  {ids \in [1..n -> 1..n] : Cardinality({i \in 1..n : ids[i] # i}) <= 1}

IndexKinds == TypeKinds \cup {"Namespace"}

NamePool == {<<"F", "o", "o">>, <<"B", "a", "r">>}
SummaryPool == {Absent, Some(<<"a", "b">>), Some(<<"T", "o">>)}
DescriptionPool == {Absent, Some(<<"o", "f">>)}
QueryPool == {<<>>, <<"f", "O">>, <<"a">>, <<"T", "o">>}
ShortQueryPool == {<<>>, <<"t", "A">>}

Item(i, name, summary, description) ==
  Reflection(i, name, "Interface", Absent, Absent, Absent, Absent, summary, description)

Intrinsic == [type |-> "intrinsic"]
ReflectionType(sigs) == [type |-> "reflection", declaration |-> [signatures |-> OptSeq(sigs)]]
UnionType(ts) == [type |-> "union", types |-> ts]

\* the type parameters site i lists under one field: f = 0 for typeParameter,
\* f = 1 for typeParameters; opt = 0 absent, 1 empty, 2 one, 3 two parameters
ParamsField(i, f, opt) ==
  IF opt = 0 THEN Absent
  ELSE Some([k \in 1..(opt - 1) |->
              [id |-> 100 + 10 * i + 5 * f + k,
               name |-> <<IF f = 0 THEN "P" ELSE "Q", Letters[k]>>,
               kindString |-> "Type parameter"]])

FocalFields == {<<0, 0>>, <<0, 2>>, <<2, 0>>, <<0, 3>>, <<3, 0>>, <<1, 2>>, <<2, 1>>, <<2, 2>>}
SignatureFields == {<<0, 0>>, <<2, 0>>, <<0, 2>>, <<1, 2>>, <<2, 2>>}

RECURSIVE MkSite(_, _, _, _, _)
\* site 0 is the focal declaration, site i > 0 a call signature of a
\* reflection in the type of site par[i]
MkSite(i, n, par, fields, grouping) ==
  LET kids == KidsOf(i, n, par)
      sigs == [k \in 1..Len(kids) |-> MkSite(kids[k], n, par, fields, grouping)]
      type == IF kids = <<>> THEN (IF i = 0 THEN Absent ELSE Some(Intrinsic))
              ELSE IF grouping = "overloads" THEN Some(ReflectionType(sigs))
              ELSE Some(UnionType(<<Intrinsic>> \o
                     [k \in 1..Len(sigs) |-> ReflectionType(<<sigs[k]>>)]))
  IN Reflection(IF i = 0 THEN 1 ELSE 50 + i,
                IF i = 0 THEN <<"F", "o", "o">> ELSE <<"s", "i", "g">>,
                IF i = 0 THEN "Type alias" ELSE "Call signature",
                Absent,
                ParamsField(i, 0, fields[i][1]), ParamsField(i, 1, fields[i][2]),
                type, Absent, Absent)

----------------------------------------------------------------------------
(* The modal's specifications *)

ModalStarts(d, ids) ==
  /\ doc = d
  /\ typeId \in ids
  /\ query = <<>>
  /\ modal = useTypesModal(doc, typeId, query)
  /\ store = Absent
  /\ UsageIdle

\* a click on an item of the list: the router hands the modal the item's id
SelectType ==
  /\ \E i \in 1..Len(modal.filteredNav) : typeId' = modal.filteredNav[i].type.id
  /\ modal' = useTypesModal(doc, typeId', query)
  /\ UNCHANGED <<doc, query, usageVars>>

\* the Search input sets the query
SetQuery(pool) ==
  /\ \E q \in pool : query' = q
  /\ modal' = useTypesModal(doc, typeId, query')
  /\ UNCHANGED <<doc, typeId, usageVars>>

InitExtract ==
  \E n \in 0..MaxNodes : \E par \in ParentVectors(n) : \E kinds \in [1..n -> Kinds] :
    ModalStarts(MkDoc(n, par, kinds, [i \in 1..n |-> i]), {0, 1})

NextExtract == SelectType \/ SetQuery(ShortQueryPool)

SpecExtract == InitExtract /\ [][NextExtract]_vars

InitIndex ==
  \E n \in 0..MaxIndexNodes : \E par \in ParentVectors(n) :
    \E kinds \in [1..n -> IndexKinds] : \E ids \in IdAssignments(n) :
      ModalStarts(MkDoc(n, par, kinds, ids), {0, 1})

SpecIndex == InitIndex /\ [][NextExtract]_vars

InitFilter ==
  \E n \in 0..MaxItems : \E names \in [1..n -> NamePool] :
    \E summaries \in [1..n -> SummaryPool] : \E descriptions \in [1..n -> DescriptionPool] :
      ModalStarts(Root([i \in 1..n |-> Item(i, names[i], summaries[i], descriptions[i])]),
                  {0, 1})

NextFilter == SelectType \/ SetQuery(QueryPool)

SpecFilter == InitFilter /\ [][NextFilter]_vars

InitParents ==
  \E n \in 0..MaxSites : \E par \in ParentVectors(n) :
    \E fields \in [0..n -> FocalFields \cup SignatureFields] :
      \E grouping \in {"overloads", "union"} :
        /\ \A i \in 1..n : fields[i] \in SignatureFields
        /\ ModalStarts(Root(<<MkSite(0, n, par, fields, grouping),
                              Item(2, <<"B", "a", "r">>, Absent, Absent)>>), {0, 1})

SpecParents == InitParents /\ [][NextExtract]_vars

\* a focal type whose type nests n inline function types, one inside the other,
\* each declaring one type parameter
InitDeep ==
  \E n \in 0..MaxChain : \E focal \in FocalFields : \E grouping \in {"overloads", "union"} :
    ModalStarts(Root(<<MkSite(0, n, [i \in 1..n |-> i - 1],
                              [i \in 0..n |-> IF i = 0 THEN focal ELSE <<2, 0>>],
                              grouping),
                       Item(2, <<"B", "a", "r">>, Absent, Absent)>>), {0, 1})

SpecDeep == InitDeep /\ [][NextExtract]_vars

----------------------------------------------------------------------------
(* DocUsage's specification *)

TabNames == {"commonjs", "esm", "umd"}

\* non-empty lists of distinct tabs
TabLists ==
  {tabs \in UNION {[1..n -> TabNames] : n \in 1..MaxTabs} :
     \A i, j \in 1..Len(tabs) : i # j => tabs[i] # tabs[j]}

InitUsage ==
  /\ doc = Root(<<>>)
  /\ typeId = 0
  /\ query = <<>>
  /\ modal = useTypesModal(doc, typeId, query)
  /\ store \in {Absent} \cup {Some(t) : t \in TabNames}
  /\ UsageIdle

NextUsage ==
  \/ \E tabs \in TabLists : Mount(tabs)
  \/ MountEffect
  \/ \E i \in 1..Len(usageTabs) : Click(usageTabs[i])
  \/ Unmount

SpecUsage == InitUsage /\ [][NextUsage]_vars

----------------------------------------------------------------------------
(* Properties of extractTypes, buildMap and the lookup *)

Range(seq) == {seq[i] : i \in 1..Len(seq)}

RECURSIVE PathsIn(_)
\* the positions of the nodes of a tree: the sequences of child indices
PathsIn(node) ==
  {<<>>} \cup
  (IF node.children = Absent THEN {}
   ELSE UNION {{<<k>> \o p : p \in PathsIn(Get(node.children)[k])} :
                k \in 1..Len(Get(node.children))})

RECURSIVE NodeAt(_, _)
NodeAt(node, p) ==
  IF p = <<>> THEN node ELSE NodeAt(Get(node.children)[Head(p)], Tail(p))

\* the nodes strictly between the root and the node at p
Intermediate(d, p) == {NodeAt(d, SubSeq(p, 1, k)) : k \in 1..(Len(p) - 1)}

\* document order of two positions neither of which is above the other
PathBefore(p, q) ==
  \E k \in 1..Len(p) :
    /\ k <= Len(q)
    /\ SubSeq(p, 1, k - 1) = SubSeq(q, 1, k - 1)
    /\ p[k] < q[k]

ExtractablePaths(d) ==
  {p \in PathsIn(d) \ {<<>>} :
     /\ NodeAt(d, p).kindString \in TypeKinds
     /\ \A m \in Intermediate(d, p) : m.kindString \notin ModuleKinds \cup TypeKinds}

\* C1: extractTypes(doc) is exactly the Interface and Type alias nodes reached
\* from doc through children whose intermediate nodes are of no kind among
\* Module, Function, Interface and Type alias, in pre-order document order. No
\* node below doc of another kind, and no node under a Module, a Function, an
\* Interface or a Type alias below doc, is in the result. (The kind of doc
\* itself, the argument of the call, is never read.)
C1_ExtractTypesExact ==
  LET E == ExtractablePaths(doc)
      ts == modal.types
  IN /\ Len(ts) = Cardinality(E)
     /\ \A p \in E : ts[1 + Cardinality({q \in E : PathBefore(q, p)})] = NodeAt(doc, p)
     /\ \A p \in PathsIn(doc) \ {<<>>} :
          (\/ NodeAt(doc, p).kindString \notin TypeKinds
           \/ \E m \in Intermediate(doc, p) : m.kindString \in ModuleKinds \cup TypeKinds)
          => NodeAt(doc, p) \notin Range(ts)

\* a type is extracted while a type under a Module or a Function is left out
C1_Witness ==
  /\ Len(modal.types) >= 1
  /\ \E p \in PathsIn(doc) :
       /\ Len(p) = 2
       /\ NodeAt(doc, p).kindString \in TypeKinds
       /\ NodeAt(doc, SubSeq(p, 1, 1)).kindString \in ModuleKinds

\* C7: the index has one key per id of the extracted types, and under every
\* id the last extracted type that carries it: when the ids are unique, one
\* entry per extracted type and index[t.id] is t itself.
C7_IndexOfExtracted ==
  LET ts == modal.types
      m == modal.map
  IN /\ DOMAIN m = {ts[i].id : i \in 1..Len(ts)}
     /\ \A i \in 1..Len(ts) :
          (\A j \in 1..Len(ts) : j > i => ts[j].id # ts[i].id) => m[ts[i].id] = ts[i]
     /\ (\A i, j \in 1..Len(ts) : i # j => ts[i].id # ts[j].id)
          => Cardinality(DOMAIN m) = Len(ts)

\* two different extracted types share an id
C7_Witness ==
  \E i, j \in 1..Len(modal.types) :
    /\ i < j
    /\ modal.types[i].id = modal.types[j].id
    /\ modal.types[i] # modal.types[j]
    /\ modal.map[modal.types[i].id] = modal.types[j]

\* C8: when typeId is no key of the index the focal type is absent, and with
\* an absent focal type the parent types map is empty, no usage is generated
\* and the modal shows the "not found" placeholder.
C8_MissingFocalType ==
  /\ typeId \notin DOMAIN modal.map => modal.type = Absent
  /\ modal.type = Absent =>
       /\ DOMAIN modal.parentTypesMap = {}
       /\ modal.usage = Absent
       /\ modal.content = "missing"

\* the requested id is missing from an index that holds a type with parameters
C8_Witness ==
  /\ typeId \notin DOMAIN modal.map
  /\ modal.content = "missing"
  /\ \E i \in 1..Len(modal.types) : DOMAIN buildParentTypesMap(Some(modal.types[i])) # {}

----------------------------------------------------------------------------
(* Properties of the search filter *)

SameLetter(a, b) ==
  \/ a = b
  \/ \E k \in 1..Len(UpperChars) : {a, b} = {UpperChars[k], LowerChars[k]}

\* q occurs in s, letter case aside
ContainsIgnoringCase(s, q) ==
  \E off \in 0..(Len(s) - Len(q)) : \A j \in 1..Len(q) : SameLetter(s[off + j], q[j])

ItemContains(item, q) ==
  \/ ContainsIgnoringCase(item.type.name, q)
  \/ item.summary # Absent /\ ContainsIgnoringCase(Get(item.summary), q)
  \/ item.description # Absent /\ ContainsIgnoringCase(Get(item.description), q)

----------------------------------------------------------------------------
(* Properties of buildParentTypesMap *)

RECURSIVE ReflectionsIn(_)
\* the reflection expressions of a type expression
ReflectionsIn(t) ==
  IF t.type = "reflection" THEN {t}
  ELSE IF t.type = "union" THEN UNION {ReflectionsIn(t.types[i]) : i \in 1..Len(t.types)}
  ELSE {}

\* the call signatures of the reflections in the type of a node
NestedSignatures(node) ==
  IF node.type = Absent THEN {}
  ELSE UNION {IF r.declaration.signatures = Absent THEN {}
              ELSE Range(Get(r.declaration.signatures)) :
              r \in ReflectionsIn(Get(node.type))}

RECURSIVE SignaturesAtDepth(_, _)
\* the focal declaration (k = 0) and the call signatures nested k reflections deep
SignaturesAtDepth(focal, k) ==
  IF k = 0 THEN {focal}
  ELSE UNION {NestedSignatures(sig) : sig \in SignaturesAtDepth(focal, k - 1)}

MaxDepth == MaxSites + MaxChain

\* the focal declaration and every call signature reachable from its type
Visited(focal) == UNION {SignaturesAtDepth(focal, k) : k \in 0..MaxDepth}

ParamsUnder(field) == IF field = Absent THEN {} ELSE Range(Get(field))

\* the type parameters a node lists, under either field name
DeclaredParams(node) == ParamsUnder(node.typeParameter) \cup ParamsUnder(node.typeParameters)

\* C2: the keys of the parent types map are exactly the ids of the type
\* parameters declared on the focal type and on every call signature reachable
\* from its type, and each is mapped to the tag of (focal, parameter).
C2_ParentTypesMapExact ==
  modal.type # Absent =>
    LET focal == Get(modal.type)
        declared == UNION {DeclaredParams(node) : node \in Visited(focal)}
    IN /\ DOMAIN modal.parentTypesMap = {param.id : param \in declared}
       /\ \A param \in declared :
            /\ param.id \in DOMAIN modal.parentTypesMap
            /\ modal.parentTypesMap[param.id] = inlineTypeHash(focal, param)

\* C2, for the declarations that list type parameters under one field name at
\* most at every node: there the map is exact.
C2_ExactWhenOneFieldPerNode ==
  modal.type # Absent =>
    LET focal == Get(modal.type)
        declared == UNION {DeclaredParams(node) : node \in Visited(focal)}
    IN (\A node \in Visited(focal) :
          node.typeParameter = Absent \/ node.typeParameters = Absent)
       => /\ DOMAIN modal.parentTypesMap = {param.id : param \in declared}
          /\ \A param \in declared :
               modal.parentTypesMap[param.id] = inlineTypeHash(focal, param)

\* C9: at every visited node every type parameter under typeParameter and
\* every type parameter under typeParameters has an entry in the map.
C9_BothFieldsRegistered ==
  modal.type # Absent =>
    \A node \in Visited(Get(modal.type)) :
      /\ \A param \in ParamsUnder(node.typeParameter) :
           param.id \in DOMAIN modal.parentTypesMap
      /\ \A param \in ParamsUnder(node.typeParameters) :
           param.id \in DOMAIN modal.parentTypesMap

\* the depth past which C10 has the descent stop, at the scale of the chains drawn
RecursionCap == 4

\* C10: the descent stops at the cap: no type parameter declared on a call
\* signature nested deeper than the cap is registered.
C10_DescentIsCapped ==
  modal.type # Absent =>
    \A k \in (RecursionCap + 1)..MaxDepth :
      \A sig \in SignaturesAtDepth(Get(modal.type), k) :
        \A param \in DeclaredParams(sig) : param.id \notin DOMAIN modal.parentTypesMap

----------------------------------------------------------------------------
(* Properties of DocUsage *)

\* the stored preference names a tab the mounted selector does not offer
StalePreference ==
  /\ phase # "unmounted"
  /\ store # Absent
  /\ Get(store) \notin Range(usageTabs)


\* the store is written by no step but a click on a tab
WrittenByClickOnly ==
  store' # store /\ store # Absent => \E i \in 1..Len(usageTabs) : Click(usageTabs[i])

\* C4 as stated: whenever the stored preference names a tab the selector does
\* not offer, the selector shows the first of its tabs, and the stored value
\* changes on a click only.
C4_StaleShowsFirstAlways ==
  [][/\ StalePreference' => selectedTab(usageTabs', source') = usageTabs'[1]
     /\ WrittenByClickOnly]_vars

\* C4, amended: once the mount effect has run, a selector whose stored
\* preference names a tab it does not offer shows the first of its tabs; a
\* stored value is changed by no mount, effect or render, only by a click.
C4_StaleShowsFirstOnceActive ==
  [][/\ StalePreference' /\ phase' = "active"
          => selectedTab(usageTabs', source') = usageTabs'[1]
     /\ WrittenByClickOnly]_vars

\* the effect has run, the stored tab is not offered, and the first tab shows
\* while the store still holds the other tab
C4_Witness ==
  /\ StalePreference
  /\ phase = "active"
  /\ selectedTab(usageTabs, source) = usageTabs[1]
  /\ Get(store) # usageTabs[1]
  /\ lastClick.tab # Absent

\* C5: after a click the store holds the clicked tab, and the selector that
\* got the click shows it and offers it.
C5_LastClickPersisted ==
  lastClick.tab # Absent =>
    /\ store = lastClick.tab
    /\ lastClick.here =>
         /\ selectedTab(usageTabs, source) = Get(lastClick.tab)
         /\ Get(lastClick.tab) \in Range(usageTabs)

\* a selector mounted over a stored preference got a click on another tab
C5_Witness ==
  /\ lastClick.here
  /\ phase = "active"
  /\ Get(lastClick.tab) # DEFAULT_SOURCE
  /\ Len(usageTabs) = 2
  /\ Get(lastClick.tab) = usageTabs[2]

\* C6 as stated: the mount effect, with nothing stored, leaves the default as
\* the selected tab and in the store; with a value stored, it adopts the value
\* as the source and leaves the store alone.
C6_MountEffectSelectsDefault ==
  [][phase = "rendered" /\ phase' = "active" =>
       IF store = Absent
       THEN /\ selectedTab(usageTabs', source') = DEFAULT_SOURCE
            /\ store' = Some(DEFAULT_SOURCE)
       ELSE /\ source' = Get(store)
            /\ store' = store]_vars

\* C6, amended: the mount effect, with nothing stored, leaves the default as
\* the source and in the store, and the default is the tab shown when the
\* selector offers it (the first tab is shown otherwise); with a value stored,
\* it adopts the value as the source and leaves the store alone.
C6_MountEffectSourceDefault ==
  [][phase = "rendered" /\ phase' = "active" =>
       IF store = Absent
       THEN /\ source' = DEFAULT_SOURCE
            /\ store' = Some(DEFAULT_SOURCE)
            /\ selectedTab(usageTabs', source') =
                 (IF DEFAULT_SOURCE \in Range(usageTabs') THEN DEFAULT_SOURCE
                  ELSE usageTabs'[1])
       ELSE /\ source' = Get(store)
            /\ store' = store]_vars

\* the effect ran with nothing stored, on a selector that does not offer the default
C6_Witness ==
  /\ phase = "active"
  /\ lastClick.tab = Absent
  /\ store = Some(DEFAULT_SOURCE)
  /\ source = DEFAULT_SOURCE
  /\ DEFAULT_SOURCE \notin Range(usageTabs)

====
